---- MODULE Spec2Model ----
(***************************************************************************)
(* rsynth: a keyboard-playable synthesizer.                                *)
(*                                                                         *)
(* The model covers src/src/input.rs (KeyboardBuffer, thread_input),       *)
(* src/src/audio/instrument.rs (Instrument, thread_audio / generate_audio) *)
(* and src/src/audio/waves.rs (Envelope, Oscillator, the generator         *)
(* palette).                                                               *)
(*                                                                         *)
(* Numbers.  f32 seconds are counted in ticks of 1/TicksPerSec second and  *)
(* amplitudes in steps of 1/AmpScale; a computed f32 is the fraction       *)
(* <<num, den>>, and a fraction with den = 0 is the NaN that 0.0/0.0       *)
(* gives.  Option<T> is a sequence of length 0 (None) or 1 (Some).         *)
(* A Rust tuple field .k is index k+1 of a TLA+ tuple.                     *)
(***************************************************************************)
EXTENDS Integers, Sequences, FiniteSets, TLC

VARIABLES
    time,             \* real time, in ticks, since the process started
    lock,             \* Mutex<Instrument>: "free", or the thread holding it
    poisoned,         \* the mutex is poisoned (a holder panicked)
    sr,               \* Instrument.sr
    cursor,           \* Instrument.cursor
    oscillator,       \* Instrument.oscillator
    envelope,         \* Instrument.envelope
    keyboard_buffer,  \* Instrument.keyboard_buffer.event_buffer
    version,          \* history: per field, the number of the randomize that wrote it
    audio_pc,         \* position of the audio thread / callback
    fills,            \* number of callbacks the device has made
    n,                \* generate_audio: data.len()
    i,                \* generate_audio: loop index
    data,             \* generate_audio: the samples written so far
    seen,             \* history: what each gen call of the fill read
    input_pc,         \* position of thread_input
    input_t0,         \* thread_input: `now`, the Instant taken at line 15
    event,            \* thread_input: the KeyEvent read, Option
    rstep,            \* progress inside Instrument randomize (0 = not in it)
    last_call,        \* history: the last keyboard operation and the buffer before it
    total,            \* history: true sum of the n given to advance_cursor
    calls             \* history: number of advance_cursor calls

vars == <<time, lock, poisoned, sr, cursor, oscillator, envelope,
          keyboard_buffer, version, audio_pc, fills, n, i, data, seen, input_pc,
          input_t0, event, rstep, last_call, total, calls>>

----------------------------------------------------------------------------
(* Bounds *)

TicksPerSec == 1
MaxTime == 2
MaxRandomizes == 1
MaxFill == 2
MaxFills == 1
MaxAdvances == 3
MaxDuration == 2

\* Width of the model's cursor type, standing for the 128 of u128.
CounterBits == 3

\* Amplitude resolution: Envelope::new() sets sustain_level 0.2 = 1/5.
AmpScale == 5

----------------------------------------------------------------------------
(* Option *)

None == <<>>
Some(x) == <<x>>
IsSome(o) == Len(o) = 1
Unwrap(o) == o[1]

----------------------------------------------------------------------------
(* Keys and events (crossterm KeyEvent: code, kind) *)

KeyCodes == {"z", "x", "r", "q"}
KeyEventKinds == {"Press", "Release", "Repeat"}

Timestamps == 0..MaxTime

----------------------------------------------------------------------------
(* HashMap<KeyCode, KeyboardBufferEvent> as a function on the keys present *)

MapInsert(m, k, v) == [x \in (DOMAIN m) \cup {k} |-> IF x = k THEN v ELSE m[x]]

KeyboardBufferEvent(key, time_press, time_release) ==
    [key |-> key, time_press |-> time_press, time_release |-> time_release]

KeyboardBuffer_new == [k \in {} |-> KeyboardBufferEvent(k, 0, None)]

\* The default of stale_time_limit.unwrap_or(2.0), in ticks.
DefaultStaleLimit == 2 * TicksPerSec

\* Mutants of the retain predicate: an off-by-one comparison; held keys dropped.
RetainedInclusive(v, now, stale_time_limit) ==
    IF IsSome(v.time_release)
    THEN (now - Unwrap(v.time_release)) <=
            (IF IsSome(stale_time_limit) THEN Unwrap(stale_time_limit)
                                        ELSE 2 * TicksPerSec)
    ELSE TRUE
RetainedDropsHeld(v, now, stale_time_limit) ==
    IF IsSome(v.time_release)
    THEN (now - Unwrap(v.time_release)) <
            (IF IsSome(stale_time_limit) THEN Unwrap(stale_time_limit)
                                        ELSE 2 * TicksPerSec)
    ELSE now - v.time_press <
            (IF IsSome(stale_time_limit) THEN Unwrap(stale_time_limit)
                                        ELSE 2 * TicksPerSec)

\* retain's predicate of clean_stale_events: TRUE = keep.
Retained(v, now, stale_time_limit) ==
    IF IsSome(v.time_release)
    THEN (now - Unwrap(v.time_release)) <
            (IF IsSome(stale_time_limit) THEN Unwrap(stale_time_limit)
                                        ELSE DefaultStaleLimit)
    ELSE TRUE

clean_stale_events(buf, now, stale_time_limit) ==
    [k \in {x \in DOMAIN buf : Retained(buf[x], now, stale_time_limit)} |-> buf[k]]

\* Mutant: HashMap::insert, which overwrites an occupied entry.
OrInsertOverwrites(m, k, v) == MapInsert(m, k, v)

\* HashMap::entry(code).or_insert(v): inserts only when the key is vacant.
OrInsert(m, k, v) == IF k \in DOMAIN m THEN m ELSE MapInsert(m, k, v)

\* Mutant: the Release arm creates the entry of an absent key.
ReleaseArmInserts(buf, code, timestamp) ==
    MapInsert(buf, code,
              KeyboardBufferEvent(code,
                                  IF code \in DOMAIN buf THEN buf[code].time_press
                                                         ELSE timestamp,
                                  Some(timestamp)))

\* The Release arm: if let Some(buffer_event) = get_mut(code) { time_release = Some(ts) }
ReleaseArm(buf, code, timestamp) ==
    IF code \in DOMAIN buf
    THEN [buf EXCEPT ![code].time_release = Some(timestamp)]
    ELSE buf

KeyboardBuffer_handle_key_event(buf, ev, timestamp) ==
    CASE ev.kind = "Press" ->
            OrInsert(buf, ev.code, KeyboardBufferEvent(ev.code, timestamp, None))
      [] ev.kind = "Release" -> ReleaseArm(buf, ev.code, timestamp)
      [] OTHER -> buf

----------------------------------------------------------------------------
(* f32 results as fractions <<num, den>> with den >= 0.  den = 0 is not a  *)
(* number: <<0, 0>> is NaN, <<1, 0>> is +Inf, <<-1, 0>> is -Inf.            *)

RECURSIVE GCD(_, _)
GCD(a, b) == IF b = 0 THEN a ELSE GCD(b, a % b)

Abs(x) == IF x < 0 THEN -x ELSE x
Sgn(x) == IF x < 0 THEN -1 ELSE IF x > 0 THEN 1 ELSE 0

Norm(f) ==
    IF f[2] = 0 THEN <<Sgn(f[1]), 0>>
    ELSE LET g == GCD(Abs(f[1]), f[2]) IN <<f[1] \div g, f[2] \div g>>

F(x) == <<x, 1>>
NaN == <<0, 0>>
IsNaN(f) == f = <<0, 0>>
IsFinite(f) == f[2] # 0
FNeg(a) == <<-a[1], a[2]>>
FAdd(a, b) ==
    IF IsFinite(a) /\ IsFinite(b)
    THEN Norm(<<a[1] * b[2] + b[1] * a[2], a[2] * b[2]>>)
    ELSE IF IsNaN(a) \/ IsNaN(b) THEN NaN
    ELSE IF IsFinite(a) THEN b
    ELSE IF IsFinite(b) THEN a
    ELSE IF a = b THEN a ELSE NaN
FSub(a, b) == FAdd(a, FNeg(b))
FMul(a, b) ==
    IF IsFinite(a) /\ IsFinite(b)
    THEN Norm(<<a[1] * b[1], a[2] * b[2]>>)
    ELSE IF IsNaN(a) \/ IsNaN(b) THEN NaN
    ELSE <<Sgn(a[1]) * Sgn(b[1]), 0>>

\* a <= b and a < b on finite fractions
FLe(a, b) == a[1] * b[2] <= b[1] * a[2]
FLt(a, b) == a[1] * b[2] < b[1] * a[2]

\* f32::clamp(min, max); min <= max in every use below.
clamp(x, min, max) == IF x < min THEN min ELSE IF x > max THEN max ELSE x

----------------------------------------------------------------------------
(* Envelope(attack_time, release_time, sustain_level, release_decay_time) *)

\* Envelope::new(): Envelope(1.0, 1.0, 0.2, 1.0)
Envelope_new == <<TicksPerSec, TicksPerSec, AmpScale \div 5, TicksPerSec>>

\* sustain_level, counted in steps of 1/AmpScale, as a fraction.
Level(x) == Norm(<<x, AmpScale>>)

\* macro lerp!(t, a, b) = a*(1.0-t) + b*t
lerp(t, a, b) == FAdd(FMul(a, FSub(F(1), t)), FMul(b, t))

\* Mutant: the progress of a ramp is not clamped to [0, 1].
ltUnclamped(a, b) == Norm(<<a, b>>)

\* macro lt!(a, b) = a.clamp(0.0, b)/b ; 0.0/0.0 when b = 0.0
lt(a, b) == Norm(<<clamp(a, 0, b), b>>)

\* Mutant: the ramp toward the sustain level is timed from the press.
EnvelopeSettlesFromPress(env, t, t0, t1) ==
    IF IsSome(t1)
    THEN lerp(lt(t - Unwrap(t1), env[4]), Level(env[3]), F(0))
    ELSE lerp(lt(t - t0, env[2]),
              lerp(lt(t - t0, env[1]), F(0), F(1)),
              Level(env[3]))

\* Mutant: a released note decays from the amplitude it had while held.
EnvelopeDecaysFromHeld(env, t, t0, t1) ==
    IF IsSome(t1)
    THEN lerp(lt(t - Unwrap(t1), env[4]),
              lerp(lt(Unwrap(t1) - t0 - env[1], env[2]),
                   lerp(lt(Unwrap(t1) - t0, env[1]), F(0), F(1)),
                   Level(env[3])),
              F(0))
    ELSE lerp(lt(t - t0 - env[1], env[2]),
              lerp(lt(t - t0, env[1]), F(0), F(1)),
              Level(env[3]))

Envelope_sample(env, t, t0, t1) ==
    IF IsSome(t1)
    THEN lerp(lt(t - Unwrap(t1), env[4]), Level(env[3]), F(0))
    ELSE lerp(lt(t - t0 - env[1], env[2]),
              lerp(lt(t - t0, env[1]), F(0), F(1)),
              Level(env[3]))

----------------------------------------------------------------------------
(* Wave generators and the Oscillator *)

Wave(kind) == [kind |-> kind]
LinearTransform(alpha, beta) == [alpha |-> alpha, beta |-> beta]
LinearTransform_default == LinearTransform(Wave("IdentityWave"), Wave("NullWave"))

\* rng.gen_range(1..7): the half-open range 1..7
RngIndexRange == 1..(7 - 1)

\* random_wave_generator, by the index drawn; `nested` is the randomized
\* LinearTransform the index-0 branch would box.
random_wave_generator(index, nested) ==
    IF index = 0 THEN [kind |-> "LinearTransform", alpha |-> nested.alpha,
                       beta |-> nested.beta]
    ELSE IF index = 1 THEN Wave("IdentityWave")
    ELSE IF index = 2 THEN Wave("ConstantWave")
    ELSE IF index = 3 THEN Wave("SinWave")
    ELSE IF index = 4 THEN Wave("SquareWave")
    ELSE IF index = 5 THEN Wave("TriWave")
    ELSE Wave("RandomWave")

Oscillator_new ==
    [ttf |-> LinearTransform(Wave("IdentityWave"), Wave("NullWave")),
     wtf |-> LinearTransform(Wave("IdentityWave"), Wave("NullWave")),
     otf |-> Wave("SinWave")]

(* Values of wave generators.  A value is a fraction <<num, den>> where it *)
(* is rational, and a term <<op, a, b>> otherwise: the sine of a non-zero   *)
(* argument, a draw of the random generator, and sums and products of      *)
(* these.  Two values of different lengths are different values.           *)

IsFraction(e) == Len(e) = 2
Term1(op, a) == <<op, a, <<>>>>
Term2(op, a, b) == <<op, a, b>>

\* TRUE when the value is certainly a finite number.
RECURSIVE IsFiniteValue(_)
IsFiniteValue(e) ==
    IF IsFraction(e) THEN IsFinite(e)
    ELSE IF e[1] \in {"square", "rand"} THEN TRUE
    ELSE IF e[1] \in {"sin", "tri"} THEN IsFiniteValue(e[2])
    ELSE IsFiniteValue(e[2]) /\ IsFiniteValue(e[3])

\* f32 multiplication and addition on values.
VMul(a, b) ==
    IF IsFraction(a) /\ IsFraction(b) THEN FMul(a, b)
    ELSE IF a = NaN \/ b = NaN THEN NaN
    ELSE IF a = F(0) /\ IsFiniteValue(b) THEN F(0)
    ELSE IF b = F(0) /\ IsFiniteValue(a) THEN F(0)
    ELSE IF a = F(1) THEN b
    ELSE IF b = F(1) THEN a
    ELSE Term2("mul", a, b)

VAdd(a, b) ==
    IF IsFraction(a) /\ IsFraction(b) THEN FAdd(a, b)
    ELSE IF a = NaN \/ b = NaN THEN NaN
    ELSE IF a = F(0) THEN b
    ELSE IF b = F(0) THEN a
    ELSE Term2("add", a, b)

\* `t as i32`: truncation toward zero, saturating, NaN to 0.
I32Max == 2147483647
as_i32(f) ==
    IF IsNaN(f) THEN 0
    ELSE IF ~IsFinite(f) THEN (IF f[1] > 0 THEN I32Max ELSE -I32Max - 1)
    ELSE Sgn(f[1]) * (Abs(f[1]) \div f[2])

\* SinWave: (t * FRAC_PI_2).sin()
SinWave_gen(t) ==
    IF ~IsFraction(t) THEN Term1("sin", t)
    ELSE IF ~IsFinite(t) THEN NaN
    ELSE IF t = F(0) THEN F(0)
    ELSE Term1("sin", t)

\* SquareWave: if (t as i32) % 2 == 0 { 1.0 } else { -1.0 }
SquareWave_gen(t) ==
    IF ~IsFraction(t) THEN Term1("square", t)
    ELSE IF as_i32(t) % 2 = 0 THEN F(1) ELSE F(-1)

\* TriWave: (t % 2.0) - 1.0, the remainder taking the sign of t.
TriWave_gen(t) ==
    IF ~IsFraction(t) THEN Term1("tri", t)
    ELSE IF ~IsFinite(t) THEN NaN
    ELSE FSub(Norm(<<Sgn(t[1]) * (Abs(t[1]) % (2 * t[2])), t[2]>>), F(1))

\* WaveGenerator::gen of a generator w at t; a boxed LinearTransform is
\* alpha.gen(t) * t + beta.gen(t).
RECURSIVE WaveGenerator_gen(_, _)
WaveGenerator_gen(w, t) ==
    CASE w.kind = "NullWave" -> F(0)
      [] w.kind = "IdentityWave" -> F(1)
      [] w.kind = "ConstantWave" -> t
      [] w.kind = "SinWave" -> SinWave_gen(t)
      [] w.kind = "SquareWave" -> SquareWave_gen(t)
      [] w.kind = "TriWave" -> TriWave_gen(t)
      [] w.kind = "RandomWave" -> Term1("rand", t)
      [] OTHER -> VAdd(VMul(WaveGenerator_gen(w.alpha, t), t),
                       WaveGenerator_gen(w.beta, t))

\* Mutant: the transform adds its two generators and drops the input.
LinearTransformDropsInput(tf, t) ==
    VAdd(WaveGenerator_gen(tf.alpha, t), WaveGenerator_gen(tf.beta, t))

\* LinearTransform::gen
LinearTransform_gen(tf, t) ==
    VAdd(VMul(WaveGenerator_gen(tf.alpha, t), t), WaveGenerator_gen(tf.beta, t))

\* Oscillator::gen: otf.gen(ttf.gen(t) * wtf.gen(freq))
Oscillator_gen(osc, t, freq) ==
    WaveGenerator_gen(osc.otf,
                      VMul(LinearTransform_gen(osc.ttf, t),
                           LinearTransform_gen(osc.wtf, freq)))

\* Oscillator::randomize and Envelope::randomize assign their fields in this
\* order; RandomizeSteps is the number of assignments.
OscillatorFields == 5
RandomizeSteps == 9

\* The k-th assignment of Oscillator::randomize (k in 1..5), g the generator drawn.
Oscillator_randomize_step(osc, k, g) ==
    CASE k = 1 -> [osc EXCEPT !.ttf.alpha = g]
      [] k = 2 -> [osc EXCEPT !.ttf.beta = g]
      [] k = 3 -> [osc EXCEPT !.wtf.alpha = g]
      [] k = 4 -> [osc EXCEPT !.wtf.beta = g]
      [] OTHER -> [osc EXCEPT !.otf = g]

\* The k-th assignment of Envelope::randomize (k in 1..4), x = rng.gen().
Envelope_randomize_step(env, k, x) == [env EXCEPT ![k] = x]

----------------------------------------------------------------------------
(* Instrument *)

\* key_to_freq, in hundredths of a hertz.
key_to_freq ==
    [k \in {"z", "s", "x", "d", "c", "v", "g", "b", "h", "n", "j", "m"} |->
        CASE k = "z" -> 13081 [] k = "s" -> 13859 [] k = "x" -> 14683
          [] k = "d" -> 15556 [] k = "c" -> 16481 [] k = "v" -> 17461
          [] k = "g" -> 18500 [] k = "b" -> 19600 [] k = "h" -> 20765
          [] k = "n" -> 22000 [] k = "j" -> 23308 [] k = "m" -> 24694]

\* u128::MAX of the model's counter type.
CounterMax == 2 ^ CounterBits - 1

\* advance_cursor: (self.cursor + n) % u128::MAX.  The addition overflows when
\* the sum exceeds CounterMax: a panic with overflow checks on (debug builds),
\* a wrap modulo 2^CounterBits with them off (release builds).
advance_cursor(c, len, overflow_checks) ==
    IF c + len > CounterMax
    THEN IF overflow_checks
         THEN [panic |-> TRUE, cursor |-> c]
         ELSE [panic |-> FALSE, cursor |-> ((c + len) % (2 ^ CounterBits)) % CounterMax]
    ELSE [panic |-> FALSE, cursor |-> (c + len) % CounterMax]

\* Instrument::t: ((cursor + i) as f32) / (sample_rate() as f32), unreduced.
Instrument_t(c, idx, rate) == <<c + idx, rate>>

\* key_to_freq.get(k).unwrap_or(&0.0), in hertz.
Instrument_freq(k) ==
    IF k \in DOMAIN key_to_freq THEN Norm(<<key_to_freq[k], 100>>) ELSE F(0)

\* Iterator::sum of the terms f[k], k in keys; 0.0 for no terms.
RECURSIVE Sum(_, _)
Sum(f, keys) ==
    IF keys = {} THEN F(0)
    ELSE LET k == CHOOSE x \in keys : TRUE
         IN VAdd(f[k], Sum(f, keys \ {k}))

\* Mutant: the sum is divided by the number of voices.
MixMean(f) ==
    IF DOMAIN f = {} THEN F(0)
    ELSE VMul(Sum(f, DOMAIN f), <<1, Cardinality(DOMAIN f)>>)

\* The voices of a sample mixed into one value.
Mix(f) == Sum(f, DOMAIN f)

\* Instrument::gen: one term per event of the buffer (the frequency looked
\* up, the envelope amplitude, the oscillator value); the sample is the sum
\* of oscillator value times amplitude.
Instrument_gen(c, idx, rate, now, osc, env, buf) ==
    LET t == Instrument_t(c, idx, rate)
        terms == [k \in DOMAIN buf |->
                    LET freq == Instrument_freq(k)
                    IN [freq |-> freq,
                        env |-> Envelope_sample(env, now, buf[k].time_press,
                                                buf[k].time_release),
                        osc |-> Oscillator_gen(osc, Norm(t), freq)]]
    IN [t |-> t,
        now |-> now,
        terms |-> terms,
        value |-> Mix([k \in DOMAIN buf |-> VMul(terms[k].osc, terms[k].env)])]

\* Mutant: the control key randomizes on every kind of event.
DispatchIgnoresKind(ev) ==
    IF ev.code = "r" THEN "randomize" ELSE "forward"

\* Mutant: every event goes to the keyboard buffer.
DispatchForwardsAll(ev) == "forward"

\* The match of Instrument::handle_key_event.
Instrument_dispatch(ev) ==
    IF ev.kind = "Press" /\ ev.code = "r" THEN "randomize" ELSE "forward"

\* Instrument::cleanup_events: the limit handed to clean_stale_events.
Instrument_stale_limit(env) == Some(env[4])

----------------------------------------------------------------------------
(* The inputs the model draws *)

\* The key events the terminal delivers in the two-thread specification.
PlayedEvents ==
    {[code |-> "z", kind |-> "Press"], [code |-> "z", kind |-> "Release"],
     [code |-> "z", kind |-> "Repeat"], [code |-> "r", kind |-> "Press"],
     [code |-> "r", kind |-> "Release"], [code |-> "r", kind |-> "Repeat"],
     [code |-> "q", kind |-> "Release"]}

\* Indices drawn by gen_range in the two-thread specification (a sample of
\* RngIndexRange).
WaveDraws == {4}

\* Values drawn by rng.gen::<f32>() in [0, 1) for the envelope in the
\* two-thread specification: the three durations in ticks, the level in steps
\* of 1/AmpScale (a sample of [0, 1): 0.0 and 0.6).
DurationDraws == {0}
LevelDraws == {3}
EnvDraws(k) == IF k = 3 THEN LevelDraws ELSE DurationDraws

\* cfg_output.sample_rate(): the rate of the device, in samples per second.
SampleRates == {2}

NoCall == [op |-> "none", ev |-> None, timestamp |-> 0, limit |-> None,
           before |-> KeyboardBuffer_new]

----------------------------------------------------------------------------
(* Initial state: Instrument::new() at time 0, both threads about to start *)

Init ==
    /\ time = 0
    /\ lock = "free"
    /\ poisoned = FALSE
    /\ sr = 0
    /\ cursor = 0
    /\ oscillator = Oscillator_new
    /\ envelope = Envelope_new
    /\ keyboard_buffer = KeyboardBuffer_new
    /\ version = [k \in 1..RandomizeSteps |-> 0]
    /\ audio_pc = "start"
    /\ fills = 0
    /\ n = 0
    /\ i = 0
    /\ data = <<>>
    /\ seen = <<>>
    /\ input_pc = "start"
    /\ input_t0 = 0
    /\ event = None
    /\ rstep = 0
    /\ last_call = NoCall
    /\ total = 0
    /\ calls = 0

instrument_vars == <<sr, cursor, oscillator, envelope, keyboard_buffer, version>>
audio_vars == <<audio_pc, fills, n, i, data, seen>>
input_vars == <<input_pc, input_t0, event, rstep>>
history_vars == <<last_call, total, calls>>

\* What a call gen(idx) reads: the Instrument's fields and its clock.
GenReads(idx) ==
    [cursor |-> cursor, keyboard_buffer |-> keyboard_buffer,
     oscillator |-> oscillator, envelope |-> envelope, version |-> version,
     sr |-> sr, now |-> time, i |-> idx]

\* Mutant: the lock is not waited for.
MutexNotWaitedFor(l) == TRUE

\* Mutex::lock returns once no other thread holds the guard.
MutexAcquirable(l) == l = "free"

\* Instrument.clock.elapsed(): the clock is taken in Instrument::new, at time 0.
ClockElapsed == time

----------------------------------------------------------------------------
(* Real time passes *)

Tick ==
    /\ time < MaxTime
    /\ time' = time + 1
    /\ UNCHANGED <<lock, poisoned, instrument_vars, audio_vars, input_vars, history_vars>>

----------------------------------------------------------------------------
(* thread_audio *)

\* instrument.rs 26: mtx_instrmnt.lock().unwrap()
AudioLockSampleRate ==
    /\ audio_pc = "start"
    /\ MutexAcquirable(lock)
    /\ IF poisoned
       THEN audio_pc' = "panicked" /\ UNCHANGED lock
       ELSE audio_pc' = "set_sr" /\ lock' = "audio"
    /\ UNCHANGED <<time, poisoned, instrument_vars, fills, n, i, data, seen,
                   input_vars, history_vars>>

\* Mutant: the stream is built without the sample rate being set.
AudioSetSampleRateSkipped ==
    /\ audio_pc = "set_sr"
    /\ lock' = "free"
    /\ audio_pc' = "build"
    /\ UNCHANGED <<time, poisoned, instrument_vars, fills, n, i, data, seen,
                   input_vars, history_vars>>

\* instrument.rs 27-28: set_sample_rate, then the guard is dropped
AudioSetSampleRate ==
    /\ audio_pc = "set_sr"
    /\ \E rate \in SampleRates : sr' = rate
    /\ lock' = "free"
    /\ audio_pc' = "build"
    /\ UNCHANGED <<time, poisoned, cursor, oscillator, envelope, keyboard_buffer,
                   version, fills, n, i, data, seen, input_vars, history_vars>>

\* instrument.rs 40-45: build_output_stream, stream.play()
AudioPlay ==
    /\ audio_pc = "build"
    /\ audio_pc' = "playing"
    /\ UNCHANGED <<time, lock, poisoned, instrument_vars, fills, n, i, data, seen,
                   input_vars, history_vars>>

\* The device calls generate_audio with a buffer of len samples.
AudioCallback ==
    /\ audio_pc = "playing"
    /\ fills < MaxFills
    /\ \E len \in 1..MaxFill : n' = len
    /\ fills' = fills + 1
    /\ i' = 0
    /\ data' = <<>>
    /\ seen' = <<>>
    /\ audio_pc' = "lock_wait"
    /\ UNCHANGED <<time, lock, poisoned, instrument_vars, input_vars, history_vars>>

\* instrument.rs 32: mti.lock().unwrap()
AudioLock ==
    /\ audio_pc = "lock_wait"
    /\ MutexAcquirable(lock)
    /\ IF poisoned
       THEN audio_pc' = "panicked" /\ UNCHANGED lock
       ELSE audio_pc' = "loop" /\ lock' = "audio"
    /\ UNCHANGED <<time, poisoned, instrument_vars, fills, n, i, data, seen,
                   input_vars, history_vars>>

\* Mutant: the loop is left after its first sample.
LoopDoneEarly(idx, len) == idx >= 1

\* The for loop of generate_audio has run through data.
LoopDone(idx, len) == idx = len

\* Mutant: gen moves the cursor itself, one sample per call.
AudioGenMovesCursor ==
    /\ audio_pc = "loop"
    /\ ~LoopDone(i, n)
    /\ data' = Append(data, Instrument_gen(cursor, i, sr, ClockElapsed, oscillator,
                                           envelope, keyboard_buffer))
    /\ seen' = Append(seen, GenReads(i))
    /\ i' = i + 1
    /\ cursor' = cursor + 1
    /\ UNCHANGED <<time, lock, poisoned, sr, oscillator, envelope, keyboard_buffer,
                   version, audio_pc, fills, n, input_vars, history_vars>>

\* instrument.rs 33-35: *sample = instrmnt.gen(i)
AudioGen ==
    /\ audio_pc = "loop"
    /\ ~LoopDone(i, n)
    /\ data' = Append(data, Instrument_gen(cursor, i, sr, ClockElapsed, oscillator,
                                           envelope, keyboard_buffer))
    /\ seen' = Append(seen, GenReads(i))
    /\ i' = i + 1
    /\ UNCHANGED <<time, lock, poisoned, instrument_vars, audio_pc, fills, n,
                   input_vars, history_vars>>

\* instrument.rs 36: instrmnt.advance_cursor(data.len())
AudioAdvance ==
    /\ audio_pc = "loop"
    /\ LoopDone(i, n)
    /\ \E overflow_checks \in BOOLEAN :
         LET r == advance_cursor(cursor, n, overflow_checks) IN
           IF r.panic
           THEN /\ audio_pc' = "panicked"
                /\ poisoned' = TRUE
                /\ lock' = "free"
                /\ UNCHANGED <<cursor, total, calls>>
           ELSE /\ audio_pc' = "unlock"
                /\ cursor' = r.cursor
                /\ total' = total + n
                /\ calls' = calls + 1
                /\ UNCHANGED <<lock, poisoned>>
    /\ UNCHANGED <<time, sr, oscillator, envelope, keyboard_buffer, version, fills,
                   n, i, data, seen, input_vars, last_call>>

\* instrument.rs 37: the guard is dropped as generate_audio returns
AudioUnlock ==
    /\ audio_pc = "unlock"
    /\ lock' = "free"
    /\ audio_pc' = "playing"
    /\ data' = <<>>
    /\ seen' = <<>>
    /\ UNCHANGED <<time, poisoned, instrument_vars, fills, n, i, input_vars,
                   history_vars>>

----------------------------------------------------------------------------
(* thread_input *)

\* Mutant: the guard is bound to a variable that outlives the statement.
InputGuardKept == "input"

\* input.rs 27 and 32: the MutexGuard of h.lock().unwrap() is a temporary,
\* dropped at the end of the statement; the lock after it.
InputGuardDropped == "free"

\* input.rs 26: now.elapsed()
InputElapsed == time - input_t0

\* input.rs 15: let now = Instant::now()
InputStart ==
    /\ input_pc = "start"
    /\ input_t0' = time
    /\ input_pc' = "poll"
    /\ UNCHANGED <<time, lock, poisoned, instrument_vars, audio_vars, event, rstep, history_vars>>

\* input.rs 17-28: poll returns true and read returns a key event; Release of
\* 'q' breaks the loop, any other key event goes to the handlers.
InputReadKey ==
    /\ input_pc = "poll"
    /\ \E ev \in PlayedEvents :
         /\ Instrument_dispatch(ev) = "randomize" => version[1] < MaxRandomizes
         /\ IF ev.code = "q" /\ ev.kind = "Release"
            THEN input_pc' = "done" /\ event' = None
            ELSE input_pc' = "lock_event" /\ event' = Some(ev)
    /\ UNCHANGED <<time, lock, poisoned, instrument_vars, audio_vars, input_t0, rstep,
                   history_vars>>

\* input.rs 29: an event that is no key event is dropped
InputReadOther ==
    /\ input_pc = "poll"
    /\ UNCHANGED <<time, lock, poisoned, instrument_vars, audio_vars, input_pc,
                   input_t0, event, rstep, history_vars>>

\* input.rs 17-18: poll or read fails and `?` returns the error
InputIoError ==
    /\ input_pc = "poll"
    /\ input_pc' = "failed"
    /\ UNCHANGED <<time, lock, poisoned, instrument_vars, audio_vars, input_t0, event,
                   rstep, history_vars>>

\* input.rs 17, 31: poll times out after 25 ms
InputPollTimeout ==
    /\ input_pc = "poll"
    /\ input_pc' = "lock_cleanup"
    /\ UNCHANGED <<time, lock, poisoned, instrument_vars, audio_vars, input_t0, event,
                   rstep, history_vars>>

\* input.rs 26: handler.lock().unwrap()
InputLockEvent ==
    /\ input_pc = "lock_event"
    /\ MutexAcquirable(lock)
    /\ IF poisoned
       THEN input_pc' = "panicked" /\ UNCHANGED lock
       ELSE input_pc' = "handle" /\ lock' = "input"
    /\ UNCHANGED <<time, poisoned, instrument_vars, audio_vars, input_t0, event, rstep, history_vars>>

\* instrument.rs 128: the event is forwarded to the keyboard buffer; the guard
\* is dropped at the end of the statement of input.rs 26.
InputHandleKey ==
    /\ input_pc = "handle"
    /\ Instrument_dispatch(Unwrap(event)) = "forward"
    /\ keyboard_buffer' =
          KeyboardBuffer_handle_key_event(keyboard_buffer, Unwrap(event), InputElapsed)
    /\ last_call' = [op |-> "handle_key_event", ev |-> event,
                     timestamp |-> InputElapsed, limit |-> None,
                     before |-> keyboard_buffer]
    /\ lock' = InputGuardDropped
    /\ input_pc' = "poll"
    /\ event' = None
    /\ UNCHANGED <<time, poisoned, sr, cursor, oscillator, envelope, version,
                   audio_vars, input_t0, rstep, total, calls>>

\* instrument.rs 125: self.oscillator.randomize(), one assignment per step.
\* No index drawn is 0, so the nested transform handed over is never boxed.
InputRandomizeOscillator ==
    /\ input_pc = "handle"
    /\ Instrument_dispatch(Unwrap(event)) = "randomize"
    /\ rstep < OscillatorFields
    /\ \E index \in WaveDraws :
         oscillator' = Oscillator_randomize_step(oscillator, rstep + 1,
                          random_wave_generator(index, LinearTransform_default))
    /\ version' = [version EXCEPT ![rstep + 1] =
                      IF rstep = 0 THEN version[1] + 1 ELSE version[1]]
    /\ rstep' = rstep + 1
    /\ last_call' = IF rstep = 0
                    THEN [op |-> "handle_key_event", ev |-> event,
                          timestamp |-> InputElapsed, limit |-> None,
                          before |-> keyboard_buffer]
                    ELSE last_call
    /\ UNCHANGED <<time, lock, poisoned, sr, cursor, envelope, keyboard_buffer,
                   audio_vars, input_pc, input_t0, event, total, calls>>

\* instrument.rs 126: self.envelope.randomize(), one assignment per step; the
\* guard is dropped after the last one.
InputRandomizeEnvelope ==
    /\ input_pc = "handle"
    /\ Instrument_dispatch(Unwrap(event)) = "randomize"
    /\ rstep >= OscillatorFields
    /\ \E x \in EnvDraws(rstep + 1 - OscillatorFields) :
         envelope' = Envelope_randomize_step(envelope, rstep + 1 - OscillatorFields, x)
    /\ version' = [version EXCEPT ![rstep + 1] = version[1]]
    /\ IF rstep + 1 = RandomizeSteps
       THEN rstep' = 0 /\ lock' = InputGuardDropped /\ input_pc' = "poll" /\ event' = None
       ELSE rstep' = rstep + 1 /\ UNCHANGED <<lock, input_pc, event>>
    /\ UNCHANGED <<time, poisoned, sr, cursor, oscillator, keyboard_buffer,
                   audio_vars, input_t0, history_vars>>

\* input.rs 32: h.lock().unwrap()
InputLockCleanup ==
    /\ input_pc = "lock_cleanup"
    /\ MutexAcquirable(lock)
    /\ IF poisoned
       THEN input_pc' = "panicked" /\ UNCHANGED lock
       ELSE input_pc' = "cleanup" /\ lock' = "input"
    /\ UNCHANGED <<time, poisoned, instrument_vars, audio_vars, input_t0, event, rstep, history_vars>>

\* instrument.rs 132-134: cleanup_events; the guard is dropped after it
InputCleanup ==
    /\ input_pc = "cleanup"
    /\ keyboard_buffer' = clean_stale_events(keyboard_buffer, ClockElapsed,
                                             Instrument_stale_limit(envelope))
    /\ last_call' = [op |-> "clean_stale_events", ev |-> None,
                     timestamp |-> ClockElapsed,
                     limit |-> Instrument_stale_limit(envelope),
                     before |-> keyboard_buffer]
    /\ lock' = InputGuardDropped
    /\ input_pc' = "poll"
    /\ UNCHANGED <<time, poisoned, sr, cursor, oscillator, envelope, version,
                   audio_vars, input_t0, event, rstep, total, calls>>

----------------------------------------------------------------------------
(* The program: the audio thread, the input thread and the clock *)

Next ==
    \/ Tick
    \/ AudioLockSampleRate
    \/ AudioSetSampleRate
    \/ AudioPlay
    \/ AudioCallback
    \/ AudioLock
    \/ AudioGen
    \/ AudioAdvance
    \/ AudioUnlock
    \/ InputStart
    \/ InputReadKey
    \/ InputReadOther
    \/ InputIoError
    \/ InputPollTimeout
    \/ InputLockEvent
    \/ InputHandleKey
    \/ InputRandomizeOscillator
    \/ InputRandomizeEnvelope
    \/ InputLockCleanup
    \/ InputCleanup

Spec == Init /\ [][Next]_vars

----------------------------------------------------------------------------
(* KeyboardBuffer alone: its two public operations called with any event,   *)
(* any timestamp and any limit.                                              *)

KBKeys == {"z", "x"}
KBEvents == [code : KBKeys, kind : KeyEventKinds]
KBNows == 0..(MaxTime + 2 * TicksPerSec)
KBLimits == {None} \cup {Some(l) : l \in 0..MaxTime}

KBHandleKeyEvent ==
    /\ \E ev \in KBEvents, timestamp \in Timestamps :
         /\ keyboard_buffer' =
               KeyboardBuffer_handle_key_event(keyboard_buffer, ev, timestamp)
         /\ last_call' = [op |-> "handle_key_event", ev |-> Some(ev),
                          timestamp |-> timestamp, limit |-> None,
                          before |-> keyboard_buffer]
    /\ UNCHANGED <<time, lock, poisoned, sr, cursor, oscillator, envelope, version,
                   audio_vars, input_vars, total, calls>>

KBCleanStaleEvents ==
    /\ \E now \in KBNows, stale_time_limit \in KBLimits :
         /\ keyboard_buffer' =
               clean_stale_events(keyboard_buffer, now, stale_time_limit)
         /\ last_call' = [op |-> "clean_stale_events", ev |-> None,
                          timestamp |-> now, limit |-> stale_time_limit,
                          before |-> keyboard_buffer]
    /\ UNCHANGED <<time, lock, poisoned, sr, cursor, oscillator, envelope, version,
                   audio_vars, input_vars, total, calls>>

NextKB == KBHandleKeyEvent \/ KBCleanStaleEvents

SpecKB == Init /\ [][NextKB]_vars

----------------------------------------------------------------------------
(* Instrument::advance_cursor alone, called with any value of the counter   *)
(* type; a panic of the call is recorded in audio_pc.                        *)

CursorAdvance ==
    /\ audio_pc # "panicked"
    /\ calls < MaxAdvances
    /\ \E len \in 0..CounterMax, overflow_checks \in BOOLEAN :
         LET r == advance_cursor(cursor, len, overflow_checks) IN
           /\ cursor' = r.cursor
           /\ audio_pc' = IF r.panic THEN "panicked" ELSE audio_pc
           /\ total' = total + len
    /\ calls' = calls + 1
    /\ UNCHANGED <<time, lock, poisoned, sr, oscillator, envelope, keyboard_buffer,
                   version, fills, n, i, data, seen, input_vars, last_call>>

SpecCursor == Init /\ [][CursorAdvance]_vars

----------------------------------------------------------------------------
(* The Instrument alone: its methods called in any order by one caller *)

\* Key events handed to Instrument::handle_key_event: a pitched key pressed
\* and released, a second pitched key and a key the pitch table does not
\* hold pressed, and the randomize key.
InstrKeys == {"z", "x", "q"}
InstrEvents ==
    [code : InstrKeys, kind : {"Press"}]
        \cup {[code |-> "z", kind |-> "Release"], [code |-> "r", kind |-> "Press"]}

\* Oscillator::randomize and Envelope::randomize as a whole: g[k] the
\* generator index drawn for the k-th field, x[k] the k-th value drawn.
RECURSIVE Oscillator_randomize(_, _, _)
Oscillator_randomize(osc, g, k) ==
    IF k > OscillatorFields THEN osc
    ELSE Oscillator_randomize(
             Oscillator_randomize_step(osc, k,
                 random_wave_generator(g[k], LinearTransform_default)),
             g, k + 1)

Envelope_randomize(env, x) == <<x[1], x[2], x[3], x[4]>>

\* data holds what the call just made returned (a sample for gen, nothing
\* for the other methods), seen what it read, i its sample index.
Returned(sample, reads, idx) ==
    /\ data' = sample
    /\ seen' = reads
    /\ i' = idx

InstrTick ==
    /\ Returned(<<>>, <<>>, 0)
    /\ time < MaxTime
    /\ time' = time + 1
    /\ UNCHANGED <<lock, poisoned, instrument_vars, audio_pc, fills, n, input_vars,
                   history_vars>>

\* instrument.rs 99: set_sample_rate
InstrSetSampleRate ==
    /\ Returned(<<>>, <<>>, 0)
    /\ \E rate \in SampleRates : sr' = rate
    /\ UNCHANGED <<time, lock, poisoned, cursor, oscillator, envelope,
                   keyboard_buffer, version, audio_pc, fills, n, input_vars, history_vars>>

\* instrument.rs 121-130: handle_key_event, stamped with the clock's reading
InstrHandleKeyEvent ==
    /\ Returned(<<>>, <<>>, 0)
    /\ \E ev \in InstrEvents :
         /\ IF Instrument_dispatch(ev) = "randomize"
            THEN /\ version[1] < MaxRandomizes
                 /\ \E g \in [1..OscillatorFields -> WaveDraws] :
                      oscillator' = Oscillator_randomize(oscillator, g, 1)
                 /\ \E x \in [1..4 -> DurationDraws \cup LevelDraws] :
                      /\ \A k \in 1..4 : x[k] \in EnvDraws(k)
                      /\ envelope' = Envelope_randomize(envelope, x)
                 /\ version' = [k \in 1..RandomizeSteps |-> version[1] + 1]
                 /\ UNCHANGED keyboard_buffer
            ELSE /\ keyboard_buffer' =
                       KeyboardBuffer_handle_key_event(keyboard_buffer, ev, ClockElapsed)
                 /\ UNCHANGED <<oscillator, envelope, version>>
    /\ UNCHANGED <<time, lock, poisoned, sr, cursor, audio_pc, fills, n, input_vars,
                   history_vars>>

\* instrument.rs 132-134: cleanup_events
InstrCleanupEvents ==
    /\ Returned(<<>>, <<>>, 0)
    /\ keyboard_buffer' = clean_stale_events(keyboard_buffer, ClockElapsed,
                                             Instrument_stale_limit(envelope))
    /\ UNCHANGED <<time, lock, poisoned, sr, cursor, oscillator, envelope,
                   version, audio_pc, fills, n, input_vars, history_vars>>

\* instrument.rs 97: advance_cursor, short of the counter's overflow
InstrAdvanceCursor ==
    /\ Returned(<<>>, <<>>, 0)
    /\ \E len \in 1..MaxFill :
         /\ cursor + len <= MaxFill
         /\ cursor' = advance_cursor(cursor, len, TRUE).cursor
    /\ UNCHANGED <<time, lock, poisoned, sr, oscillator, envelope,
                   keyboard_buffer, version, audio_pc, fills, n, input_vars, history_vars>>

\* instrument.rs 105-115: gen(i); the sample and what it was computed from
InstrGen ==
    /\ \E idx \in 0..(MaxFill - 1) :
         Returned(<<Instrument_gen(cursor, idx, sr, ClockElapsed, oscillator,
                                   envelope, keyboard_buffer)>>,
                  <<GenReads(idx)>>, idx)
    /\ UNCHANGED <<time, lock, poisoned, instrument_vars, audio_pc, fills, n,
                   input_vars, history_vars>>

NextInstrument ==
    \/ InstrTick
    \/ InstrSetSampleRate
    \/ InstrHandleKeyEvent
    \/ InstrCleanupEvents
    \/ InstrAdvanceCursor
    \/ InstrGen

SpecInstrument == Init /\ [][NextInstrument]_vars

----------------------------------------------------------------------------
(* The Envelope alone: built from its four public fields and sampled *)

\* Envelope(attack_time, release_time, sustain_level, release_decay_time):
\* durations in ticks, the level in steps of 1/AmpScale.
Envelopes ==
    {<<a, r, s, d>> : a \in 0..MaxDuration, r \in 0..MaxDuration,
                      s \in 0..AmpScale, d \in 0..MaxDuration}

\* The arguments of Envelope::sample(t, t0, t1).
SampleNows == (-MaxDuration)..(1 + 2 * MaxDuration)
SamplePresses == 0..1
SampleReleases == {None} \cup {Some(t1) : t1 \in 0..MaxTime}

\* waves.rs 139: Envelope(a, r, s, d)
EnvConstruct ==
    /\ Returned(<<>>, <<>>, 0)
    /\ \E e \in Envelopes : envelope' = e
    /\ UNCHANGED <<time, lock, poisoned, sr, cursor, oscillator, keyboard_buffer,
                   version, audio_pc, fills, n, input_vars, history_vars>>

\* waves.rs 144-153: Envelope::sample
EnvSample ==
    /\ \E t \in SampleNows, t0 \in SamplePresses, t1 \in SampleReleases :
         Returned(<<[value |-> Envelope_sample(envelope, t, t0, t1)]>>,
                  <<[envelope |-> envelope, now |-> t, time_press |-> t0,
                     time_release |-> t1]>>, 0)
    /\ UNCHANGED <<time, lock, poisoned, instrument_vars, audio_pc, fills, n,
                   input_vars, history_vars>>

NextEnvelope == EnvConstruct \/ EnvSample

SpecEnvelope == Init /\ [][NextEnvelope]_vars

----------------------------------------------------------------------------
(* The Oscillator alone: built from its public fields, randomized, sampled *)

\* The leaf generators, and the branches of random_wave_generator's if-chain.
LeafKinds == {"NullWave", "IdentityWave", "ConstantWave", "SinWave",
              "SquareWave", "TriWave", "RandomWave"}
PaletteIndices == 0..6

\* Oscillators written as struct literals: two transforms over the
\* deterministic leaves that keep the model's values rational, and a terminal.
BuiltTransforms ==
    {LinearTransform(Wave(a), Wave(b)) :
        a \in {"IdentityWave", "ConstantWave"}, b \in {"NullWave", "IdentityWave"}}
BuiltOscillators ==
    {[ttf |-> x, wtf |-> LinearTransform_default, otf |-> Wave(k)] :
        x \in BuiltTransforms, k \in LeafKinds \ {"RandomWave"}}

\* The arguments of Oscillator::gen(t, freq): t in half seconds, freq in
\* hertz (small values: the model's integers are 32 bits wide).
OscTimes == {Norm(<<c, 2>>) : c \in 0..3}
OscFreqs == {F(0), F(1), <<5, 2>>}

\* waves.rs 216-220: Oscillator { ttf, wtf, otf }
OscConstruct ==
    /\ rstep = 0
    /\ Returned(<<>>, <<>>, 0)
    /\ \E o \in BuiltOscillators : oscillator' = o
    /\ UNCHANGED <<time, lock, poisoned, sr, cursor, envelope, keyboard_buffer,
                   version, audio_pc, fills, n, input_pc, input_t0, event, rstep,
                   history_vars>>

\* waves.rs 122-128 with 30-52: one assignment of Oscillator::randomize, the
\* generator being the branch `index` of random_wave_generator; only an index
\* of the range drawn from can be the one drawn.
OscRandomizeStep(index) ==
    /\ index \in RngIndexRange
    /\ Returned(<<>>, <<>>, 0)
    /\ oscillator' = Oscillator_randomize_step(oscillator, rstep + 1,
                        random_wave_generator(index, LinearTransform_default))
    /\ rstep' = (rstep + 1) % OscillatorFields
    /\ UNCHANGED <<time, lock, poisoned, sr, cursor, envelope, keyboard_buffer,
                   version, audio_pc, fills, n, input_pc, input_t0, event,
                   history_vars>>

OscRandomize == \E index \in PaletteIndices : OscRandomizeStep(index)

\* waves.rs 116-120: Oscillator::gen
OscGen ==
    /\ rstep = 0
    /\ \E t \in OscTimes, freq \in OscFreqs :
         Returned(<<[value |-> Oscillator_gen(oscillator, t, freq)]>>,
                  <<[oscillator |-> oscillator, t |-> t, freq |-> freq]>>, 0)
    /\ UNCHANGED <<time, lock, poisoned, instrument_vars, audio_pc, fills, n,
                   input_vars, history_vars>>

NextOscillator == OscConstruct \/ OscRandomize \/ OscGen

\* thread_rng is uniform over the range drawn from: a branch that can be
\* drawn is drawn again and again.
FairDraws == \A index \in PaletteIndices : SF_vars(OscRandomizeStep(index))

SpecOscillator == Init /\ [][NextOscillator]_vars /\ FairDraws

----------------------------------------------------------------------------
(* The input thread alone with the clock, its loop kept running *)

\* A step of thread_input.
InputStep ==
    \/ InputStart
    \/ InputReadKey
    \/ InputReadOther
    \/ InputIoError
    \/ InputPollTimeout
    \/ InputLockEvent
    \/ InputHandleKey
    \/ InputRandomizeOscillator
    \/ InputRandomizeEnvelope
    \/ InputLockCleanup
    \/ InputCleanup

NextInputLoop == Tick \/ InputStep

\* The thread is scheduled: while it can take a step it takes one.  Whether
\* poll returns an event or times out is the terminal's choice.
SpecInputLoop == Init /\ [][NextInputLoop]_vars /\ WF_vars(InputStep)

-----------------------------------------------------------------------------
(* The program with its threads scheduled *)

\* What a thread does once it has the lock; when the device calls back and
\* what poll returns stay the environment's choice.
AudioRun ==
    \/ AudioSetSampleRate
    \/ AudioPlay
    \/ AudioAdvance
    \/ AudioUnlock
InputRun ==
    \/ InputHandleKey
    \/ InputRandomizeOscillator
    \/ InputRandomizeEnvelope
    \/ InputCleanup

\* WF_vars(AudioGen) written out: AudioGen always moves i, so
\* ENABLED <<AudioGen>>_vars is the guard of AudioGen.
AudioGenRuns ==
    \/ []<>~(audio_pc = "loop" /\ ~LoopDone(i, n))
    \/ []<><<AudioGen>>_vars

\* A running thread takes its next step; a thread blocked in Mutex::lock is
\* woken when the lock is released and is not overtaken for ever.
Scheduling ==
    /\ WF_vars(AudioRun)
    /\ AudioGenRuns
    /\ WF_vars(InputRun)
    /\ SF_vars(AudioLockSampleRate)
    /\ SF_vars(AudioLock)
    /\ SF_vars(InputLockEvent)
    /\ SF_vars(InputLockCleanup)

SpecScheduled == Init /\ [][Next]_vars /\ Scheduling

----------------------------------------------------------------------------
(* Claims *)

LastEvent == Unwrap(last_call.ev)
LastIsHandle(kind) ==
    /\ last_call.op = "handle_key_event"
    /\ LastEvent.kind = kind
LastIsClean == last_call.op = "clean_stale_events"

\* absent / held / released, per key
KeyState(buf, k) ==
    IF k \notin DOMAIN buf THEN "absent"
    ELSE IF IsSome(buf[k].time_release) THEN "released" ELSE "held"

\* C1: a Press for a key that already has an event in the buffer, held or
\* released, leaves the whole buffer as it was, whatever the timestamp.
C1_PressOfPresentKeyIsNoOp ==
    (LastIsHandle("Press") /\ LastEvent.code \in DOMAIN last_call.before)
        => keyboard_buffer = last_call.before

\* C1 witness: a Press, with a timestamp other than the recorded time_press,
\* has been delivered for a key whose event was already released, while the
\* other key had an event too.
C1_Witness ==
    /\ LastIsHandle("Press")
    /\ LastEvent.code \in DOMAIN last_call.before
    /\ IsSome(last_call.before[LastEvent.code].time_release)
    /\ last_call.timestamp # last_call.before[LastEvent.code].time_press
    /\ Cardinality(DOMAIN last_call.before) = 2

\* C2: time_release is set once: a Release for a key whose event already has
\* time_release = Some(t) leaves it Some(t).
C2_ReleaseSetOnce ==
    (/\ LastIsHandle("Release")
     /\ LastEvent.code \in DOMAIN last_call.before
     /\ IsSome(last_call.before[LastEvent.code].time_release))
        => keyboard_buffer[LastEvent.code].time_release =
              last_call.before[LastEvent.code].time_release

\* The events a sweep at `now` with limit L has to remove.
Stale(buf, now, L) ==
    {k \in DOMAIN buf :
        /\ buf[k].time_release # None
        /\ now - buf[k].time_release[1] >= L}

\* C3: clean_stale_events(now, limit) removes exactly the events released at
\* some t with now - t >= L, L the limit given or 2.0 seconds when it is None,
\* and keeps every other event unchanged; an unreleased event is never removed.
C3_SweepRemovesExactlyStale ==
    LastIsClean =>
        LET L == IF last_call.limit = None THEN 2 * TicksPerSec
                                           ELSE last_call.limit[1]
            gone == Stale(last_call.before, last_call.timestamp, L)
        IN /\ DOMAIN keyboard_buffer = (DOMAIN last_call.before) \ gone
           /\ \A k \in DOMAIN keyboard_buffer : keyboard_buffer[k] = last_call.before[k]
           /\ \A k \in DOMAIN last_call.before :
                 last_call.before[k].time_release = None => k \in DOMAIN keyboard_buffer

\* C3 witness: a sweep with no limit given removed one released event and kept
\* the other event.
C3_Witness ==
    /\ LastIsClean
    /\ last_call.limit = None
    /\ Cardinality(DOMAIN last_call.before) = 2
    /\ Cardinality(DOMAIN keyboard_buffer) = 1

\* C4: a key moves only absent -> held by a Press of it, held -> released by a
\* Release of it, released -> absent by a sweep.
C4_KeyLifecycle ==
    [][\A k \in KeyCodes :
         LET a == KeyState(keyboard_buffer, k)
             b == KeyState(keyboard_buffer', k)
         IN \/ a = b
            \/ /\ a = "absent" /\ b = "held"
               /\ last_call'.op = "handle_key_event"
               /\ last_call'.ev = Some([code |-> k, kind |-> "Press"])
            \/ /\ a = "held" /\ b = "released"
               /\ last_call'.op = "handle_key_event"
               /\ last_call'.ev = Some([code |-> k, kind |-> "Release"])
            \/ /\ a = "released" /\ b = "absent"
               /\ last_call'.op = "clean_stale_events"]_vars

\* C4 witness: a sweep has taken a released key out of the buffer, after the
\* key was pressed and released.
C4_Witness ==
    /\ LastIsClean
    /\ \E k \in DOMAIN last_call.before :
          /\ k \notin DOMAIN keyboard_buffer
          /\ KeyState(last_call.before, k) = "released"

\* C5: a Release for a key with no event in the buffer, delivered through
\* Instrument.handle_key_event to KeyboardBuffer.handle_key_event, leaves the
\* buffer unchanged, creates no entry, and no thread panics.
C5_ReleaseOfAbsentKeyIsNoOp ==
    (LastIsHandle("Release") /\ LastEvent.code \notin DOMAIN last_call.before)
        => /\ keyboard_buffer = last_call.before
           /\ LastEvent.code \notin DOMAIN keyboard_buffer
           /\ input_pc # "panicked"
           /\ ~poisoned

\* C5 witness: a Release of an absent key has been handled and the input loop
\* is polling again.
C5_Witness ==
    /\ LastIsHandle("Release")
    /\ LastEvent.code \notin DOMAIN last_call.before
    /\ input_pc = "poll"

InFill == audio_pc \in {"loop", "unlock"}

\* C6: from the first gen of a fill to its advance_cursor the callback holds
\* the lock, the input thread is inside no handler, and every gen of the fill
\* read the same keyboard buffer, oscillator, envelope and cursor, which are
\* still the Instrument's.
C6_FillIsOneCriticalSection ==
    InFill =>
        /\ lock = "audio"
        /\ input_pc \notin {"handle", "cleanup"}
        /\ rstep = 0
        /\ \A j \in 1..Len(seen) :
              /\ seen[j].keyboard_buffer = keyboard_buffer
              /\ seen[j].oscillator = oscillator
              /\ seen[j].envelope = envelope
              /\ seen[j].cursor = seen[1].cursor

\* C6 witness: a fill of two samples is complete while the input thread waits
\* for the lock with a key event to deliver.
C6_Witness ==
    /\ audio_pc = "unlock"
    /\ Len(seen) = n
    /\ n >= 2
    /\ input_pc = "lock_event"
    /\ event = Some([code |-> "z", kind |-> "Press"])

\* C7: every gen call reads an oscillator and an envelope whose nine fields
\* were all written by the same randomize (or all by none).
C7_RandomizeIsAtomic ==
    \A j \in 1..Len(seen) :
        \A k \in 1..RandomizeSteps : seen[j].version[k] = seen[j].version[1]

\* C7 witness: one fill generated a sample after a complete randomize while
\* the input thread waits for the lock.
C7_Witness ==
    /\ Len(seen) >= 1
    /\ seen[1].version[RandomizeSteps] >= 1
    /\ seen[1].oscillator # Oscillator_new
    /\ seen[1].envelope # Envelope_new
    /\ input_pc \in {"lock_event", "lock_cleanup"}

\* C8: advance_cursor runs once per fill, with the buffer length, after all n
\* gen calls: during the loop the cursor is the one the fill started with and
\* sample j is generated at (cursor + j) / sample_rate; after the advance all n
\* samples are there and the cursor has moved by n.
C8_AdvanceOncePerFillAfterGen ==
    /\ audio_pc \in {"lock_wait", "loop"} => calls = fills - 1
    /\ audio_pc \in {"playing", "unlock"} => calls = fills
    /\ InFill =>
          /\ Len(data) = i
          /\ Len(seen) = i
          /\ \A j \in 1..Len(data) :
                /\ data[j].t = <<seen[1].cursor + (j - 1), sr>>
                /\ seen[j].cursor = seen[1].cursor
    /\ audio_pc = "loop" => \A j \in 1..Len(seen) : seen[j].cursor = cursor
    /\ audio_pc = "unlock" =>
          /\ Len(data) = n
          /\ cursor = seen[1].cursor + n

\* C8 witness: the second sample of a fill was generated with the cursor the
\* fill started with, and the cursor has then been advanced by 2.
C8_Witness ==
    /\ audio_pc = "unlock"
    /\ n = 2
    /\ Len(data) = 2
    /\ data[2].t = <<seen[1].cursor + 1, sr>>
    /\ cursor = seen[1].cursor + 2

\* C9: after any calls of advance_cursor the cursor is the sum of the values
\* given, modulo the maximum of the counter type, and no call fails.
C9_CursorIsSumModMax ==
    /\ audio_pc # "panicked"
    /\ cursor = total % CounterMax

\* C10: every event a cleanup removes has envelope amplitude 0 at the time of
\* the cleanup, with the envelope of the cleanup.
C10_RemovedEventsAreSilent ==
    LastIsClean =>
        \A k \in (DOMAIN last_call.before) \ (DOMAIN keyboard_buffer) :
            Envelope_sample(envelope, last_call.timestamp,
                            last_call.before[k].time_press,
                            last_call.before[k].time_release) = F(0)

\* C11: Instrument::gen called while the sample rate is still the
\* placeholder 0 returns silence, 0.0 and never NaN or Inf, whatever the
\* cursor, the sample index and the content of the keyboard buffer.
C11_GenAtRateZeroIsSilent ==
    \A j \in 1..Len(data) : data[j].t[2] = 0 => data[j].value = F(0)

\* The sum of the values vs[1], vs[2], ... taken in that order.
RECURSIVE SumInOrder(_, _)
SumInOrder(vs, k) ==
    IF k > Len(vs) THEN F(0) ELSE VAdd(vs[k], SumInOrder(vs, k + 1))

\* The orders in which a set of keys can be iterated.
Orders(keys) ==
    {o \in [1..Cardinality(keys) -> keys] : \A k \in keys : \E p \in DOMAIN o : o[p] = k}

\* The pitch of a key: the table's entry, 0.0 for a key it does not hold.
PitchOf(k) ==
    CASE k = "z" -> <<13081, 100>> [] k = "x" -> <<14683, 100>> [] OTHER -> F(0)

\* C18: gen(i) is the plain sum, over the events of the keyboard buffer in
\* their iteration order, of oscillator.gen(t, freq) times
\* envelope.sample(now, press, release), with t = (cursor + i) / sample_rate
\* and freq the key's pitch (0.0 for an unmapped key); it is 0.0 for an empty
\* buffer and is not divided by the number of notes.
C18_GenIsPlainSumOfVoices ==
    \A j \in 1..Len(data) :
        LET r == seen[j]
            buf == r.keyboard_buffer
            t == Norm(<<r.cursor + r.i, r.sr>>)
            voice(k) == VMul(Oscillator_gen(r.oscillator, t, PitchOf(k)),
                             Envelope_sample(r.envelope, r.now, buf[k].time_press,
                                             buf[k].time_release))
        IN /\ DOMAIN buf = {} => data[j].value = F(0)
           /\ \E o \in Orders(DOMAIN buf) :
                data[j].value = SumInOrder([p \in DOMAIN o |-> voice(o[p])], 1)

\* Two pitched keys and an unmapped one sounding in one sample at a known rate.
C18_Witness ==
    /\ Len(data) = 1
    /\ seen[1].sr # 0
    /\ DOMAIN seen[1].keyboard_buffer = {"z", "x", "q"}
    /\ ~IsFraction(data[1].value)

\* The Envelope::sample call just made: its arguments and its result.
Sampled == Len(data) = 1 /\ Len(seen) = 1
SampledHeld == Sampled /\ ~IsSome(seen[1].time_release)
SampledReleased == Sampled /\ IsSome(seen[1].time_release)
AttackTime == seen[1].envelope[1]
ReleaseTime == seen[1].envelope[2]
SustainLevel == Level(seen[1].envelope[3])
ReleaseDecayTime == seen[1].envelope[4]
SampleNow == seen[1].now
SamplePress == seen[1].time_press
SampleRelease == Unwrap(seen[1].time_release)
SampleValue == data[1].value

\* C12: with a zero-length ramp (attack_time, release_time or
\* release_decay_time equal to 0) Envelope::sample returns a defined number:
\* 0 for a released note with release_decay_time 0, sustain_level for a held
\* note with release_time 0 once the attack has elapsed.
C12_ZeroLengthRampIsAJump ==
    Sampled /\ (AttackTime = 0 \/ ReleaseTime = 0 \/ ReleaseDecayTime = 0) =>
        /\ IsFinite(SampleValue)
        /\ (SampledReleased /\ ReleaseDecayTime = 0 /\ SampleNow >= SampleRelease
               => SampleValue = F(0))
        /\ (SampledHeld /\ ReleaseTime = 0 /\ AttackTime > 0
               /\ SampleNow >= SamplePress + AttackTime
               => SampleValue = SustainLevel)

PositiveDurations == AttackTime > 0 /\ ReleaseTime > 0 /\ ReleaseDecayTime > 0
UnitParameters ==
    /\ AttackTime <= TicksPerSec
    /\ ReleaseTime <= TicksPerSec
    /\ ReleaseDecayTime <= TicksPerSec
    /\ FLe(SustainLevel, F(1))

\* C13 as stated: with parameters in [0, 1] and ramp durations > 0, the
\* amplitude of a held note and of a released note lies in [0, sustain_level].
C13_AmplitudeWithinSustain ==
    Sampled /\ UnitParameters /\ PositiveDurations =>
        FLe(F(0), SampleValue) /\ FLe(SampleValue, SustainLevel)

\* C13: with ramp durations > 0 and sustain_level in [0, 1], the amplitude
\* of a held note lies in [0, 1] and the amplitude of a released note lies
\* in [0, sustain_level].
C13_AmplitudeWithinBounds ==
    Sampled /\ PositiveDurations =>
        /\ IsFinite(SampleValue)
        /\ FLe(F(0), SampleValue)
        /\ SampledHeld => FLe(SampleValue, F(1))
        /\ SampledReleased => FLe(SampleValue, SustainLevel)

\* A held note at the end of its attack, louder than its sustain level.
C13_Witness ==
    /\ SampledHeld
    /\ UnitParameters /\ PositiveDurations
    /\ SampleValue = F(1)
    /\ FLt(SustainLevel, F(1))

\* C14 as stated: with attack_time a > 0, a held note pressed at t0 is at
\* sustain_level at t0 + a.
C14_SustainAtEndOfAttack ==
    SampledHeld /\ AttackTime > 0 /\ SampleNow = SamplePress + AttackTime =>
        SampleValue = SustainLevel

\* C14: with attack_time a > 0, a held note pressed at t0 is at 1.0 at
\* t0 + a; from there it moves linearly to sustain_level over release_time,
\* timed from the end of the attack, and stays there.  With release_time 0
\* the amplitude is NaN from t0 + a on.
C14_RampToSustainStartsAfterAttack ==
    SampledHeld /\ AttackTime > 0 /\ SampleNow >= SamplePress + AttackTime =>
        LET elapsed == SampleNow - SamplePress - AttackTime
            done == IF elapsed < ReleaseTime THEN elapsed ELSE ReleaseTime
        IN IF ReleaseTime > 0
           THEN SampleValue =
                   FAdd(F(1), FMul(FSub(SustainLevel, F(1)), Norm(<<done, ReleaseTime>>)))
           ELSE IsNaN(SampleValue)

\* A held note half way between the end of its attack and its sustain level.
C14_Witness ==
    /\ SampledHeld
    /\ AttackTime > 0 /\ ReleaseTime > 1
    /\ SampleNow = SamplePress + AttackTime + 1
    /\ FLt(SustainLevel, SampleValue) /\ FLt(SampleValue, F(1))

\* C15: for a held note and ramp durations > 0 the ramps saturate: the
\* amplitude is 0 for every now <= press, and sustain_level for every
\* now >= press + attack_time + release_time.
C15_HeldRampsSaturate ==
    SampledHeld /\ AttackTime > 0 /\ ReleaseTime > 0 =>
        /\ SampleNow <= SamplePress => SampleValue = F(0)
        /\ SampleNow >= SamplePress + AttackTime + ReleaseTime
              => SampleValue = SustainLevel

\* A held note sampled long after both ramps, at a level strictly inside (0, 1).
C15_Witness ==
    /\ SampledHeld
    /\ PositiveDurations
    /\ SampleNow > SamplePress + AttackTime + ReleaseTime
    /\ FLt(F(0), SustainLevel) /\ FLt(SustainLevel, F(1))
    /\ SampleValue = SustainLevel

\* C16: for a released note and release_decay_time r > 0 the amplitude is
\* sustain_level up to the release time t1, falls linearly to 0 at t1 + r and
\* stays 0, whatever the press time and the amplitude the note had while held.
C16_ReleaseDecaysFromSustain ==
    SampledReleased /\ ReleaseDecayTime > 0 =>
        LET elapsed == clamp(SampleNow - SampleRelease, 0, ReleaseDecayTime)
        IN SampleValue =
              FMul(SustainLevel,
                   Norm(<<ReleaseDecayTime - elapsed, ReleaseDecayTime>>))

\* A note released during its attack, sampled half way down its decay.
C16_Witness ==
    /\ SampledReleased
    /\ ReleaseDecayTime > 1 /\ AttackTime > 1
    /\ SamplePress = 0 /\ SampleRelease = 1
    /\ SampleNow = SampleRelease + 1
    /\ FLt(F(0), SampleValue) /\ FLt(SampleValue, SustainLevel)

\* A step of Instrument::handle_key_event taken by the input thread.
HandlerStep == input_pc = "handle" /\ (rstep' # rstep \/ input_pc' # input_pc)

\* C17: Instrument::handle_key_event on a Press of 'r' randomizes the
\* oscillator and the envelope (every field of both is written by that one
\* randomize) and leaves the keyboard buffer unchanged; on every other event
\* it hands the same event and timestamp to KeyboardBuffer::handle_key_event
\* and leaves the oscillator and the envelope unchanged.
C17_ControlKeyDispatch ==
    [][HandlerStep =>
         LET ev == Unwrap(event)
         IN IF ev.kind = "Press" /\ ev.code = "r"
            THEN /\ keyboard_buffer' = keyboard_buffer
                 /\ version'[rstep + 1] = version'[1]
                 /\ rstep = 0 => version'[1] = version[1] + 1
                 /\ input_pc' # "handle" =>
                       \A k \in 1..RandomizeSteps : version'[k] = version'[1]
            ELSE /\ keyboard_buffer' =
                       KeyboardBuffer_handle_key_event(keyboard_buffer, ev, InputElapsed)
                 /\ oscillator' = oscillator
                 /\ envelope' = envelope
                 /\ version' = version
                 /\ input_pc' # "handle"]_vars

\* A randomize completed while a key was held: the buffer kept its event.
C17_Witness ==
    /\ input_pc = "poll"
    /\ last_call.op = "handle_key_event"
    /\ LastEvent = [code |-> "r", kind |-> "Press"]
    /\ \A k \in 1..RandomizeSteps : version[k] = 1
    /\ oscillator # Oscillator_new
    /\ keyboard_buffer # KeyboardBuffer_new
    /\ keyboard_buffer = last_call.before

\* C19: the input thread holds the Instrument lock only while it delivers
\* one key event or runs one cleanup; while it waits in poll or read (and
\* before and after the loop) the lock is not its own, so a callback waiting
\* for the lock while the input thread polls can take it.
C19_NoLockAcrossPoll ==
    /\ input_pc \notin {"handle", "cleanup"} => lock # "input"
    /\ input_pc = "poll" /\ audio_pc = "lock_wait" => MutexAcquirable(lock)

\* The input thread back in poll after delivering an event, the callback
\* filling the buffer under the lock meanwhile.
C19_Witness ==
    /\ input_pc = "poll"
    /\ last_call.op = "handle_key_event"
    /\ audio_pc = "loop"
    /\ lock = "audio"

\* The sample rate is set and every gen of the running fill has read it.
StreamSeesSampleRate ==
    /\ audio_pc \in {"build", "playing", "lock_wait", "loop", "unlock"}
          => sr \in SampleRates
    /\ \A j \in 1..Len(data) : data[j].t[2] = sr /\ seen[j].sr \in SampleRates

\* C20: set_sample_rate is called once, from the placeholder 0 and before
\* the stream is built and played; every gen call of the callback reads the
\* negotiated rate, none reads 0.
C20_SampleRateSetOnceBeforeStream ==
    [][/\ sr' # sr => sr = 0 /\ audio_pc = "set_sr" /\ audio_pc' = "build"
       /\ audio_pc' = "build" /\ audio_pc # "build" => sr' # sr
       /\ StreamSeesSampleRate']_vars

\* A callback has generated a sample at the negotiated rate.
C20_Witness ==
    /\ audio_pc = "loop"
    /\ Len(data) >= 1
    /\ data[1].t[2] \in SampleRates

\* The Oscillator::gen call just made.
OscSampled == Len(data) = 1 /\ Len(seen) = 1
IsIdentityTransform(tf) == tf = LinearTransform(Wave("IdentityWave"), Wave("NullWave"))

\* C21: an Oscillator whose two transforms are the identity transform
\* returns its terminal generator applied to t * freq, the bare sine of
\* t * freq when the terminal is SinWave; a transform whose alpha is
\* ConstantWave and whose beta is IdentityWave maps x to x * x + 1, so the
\* oscillator returns otf((t * t + 1) * wtf(freq)).
C21_OscillatorComposes ==
    OscSampled =>
        LET o == seen[1].oscillator
            t == seen[1].t
            freq == seen[1].freq
        IN /\ IsIdentityTransform(o.ttf) /\ IsIdentityTransform(o.wtf)
                 /\ o.otf = Wave("SinWave")
                 => data[1].value = SinWave_gen(FMul(t, freq))
           /\ IsIdentityTransform(o.ttf) /\ IsIdentityTransform(o.wtf)
                 => data[1].value = WaveGenerator_gen(o.otf, FMul(t, freq))
           /\ o.ttf = LinearTransform(Wave("ConstantWave"), Wave("IdentityWave"))
                 /\ IsIdentityTransform(o.wtf)
                 => data[1].value =
                       WaveGenerator_gen(o.otf, FMul(FAdd(FMul(t, t), F(1)), freq))

\* The all-identity sine oscillator sampled off the sine's zero.
C21_Witness ==
    /\ OscSampled
    /\ seen[1].oscillator = Oscillator_new
    /\ seen[1].freq = <<5, 2>>
    /\ seen[1].t = <<3, 2>>
    /\ data[1].value = Term1("sin", <<15, 4>>)

\* The five generators of an oscillator.
Generators(o) == {o.ttf.alpha, o.ttf.beta, o.wtf.alpha, o.wtf.beta, o.otf}

\* C22: Oscillator::randomize draws each of its five generators from the
\* whole palette, a nested LinearTransform included: randomizing again and
\* again with fair draws, a nested LinearTransform eventually becomes one of
\* the oscillator's generators.
C22_NestedTransformIsDrawn ==
    <>(\E g \in Generators(oscillator) : g.kind = "LinearTransform")

\* C23: the timestamps stored in the keyboard buffer are readings of the
\* clock that Instrument::gen and Instrument::cleanup_events read: an event
\* created by a delivery has time_press equal to that clock's reading at the
\* delivery, and a release set by a delivery equals it too.
C23_OneClockOneEpoch ==
    [][HandlerStep /\ Instrument_dispatch(Unwrap(event)) = "forward" =>
         \A k \in DOMAIN keyboard_buffer' :
            IF k \in DOMAIN keyboard_buffer
            THEN keyboard_buffer'[k].time_release # keyboard_buffer[k].time_release
                    => keyboard_buffer'[k].time_release = Some(ClockElapsed)
            ELSE keyboard_buffer'[k].time_press = ClockElapsed]_vars

InputLoopEnded == input_pc \in {"done", "failed", "panicked"}

\* C24: while the input loop runs, an event whose release is old enough for
\* the sweep to remove it is eventually removed from the keyboard buffer,
\* whatever the terminal delivers, a continuous stream of key events included.
C24_ReleasedEventsAreEvicted ==
    \A k \in KeyCodes :
        (k \in Stale(keyboard_buffer, ClockElapsed, envelope[4]))
            ~> (k \notin DOMAIN keyboard_buffer \/ InputLoopEnded)

\* The steps of the callback: one gen, and the advance_cursor after the loop.
GenStep == audio_pc = "loop" /\ i' = i + 1
AdvanceStep == audio_pc = "loop" /\ audio_pc' # "loop"

\* C25: a gen leaves the cursor, the keyboard buffer, the sample rate, the
\* envelope and the oscillator as they were; advance_cursor changes the
\* cursor alone; nothing but advance_cursor changes the cursor; and the
\* keyboard buffer changes only inside handle_key_event and cleanup_events,
\* called by the input thread.
C25_AudioPathFrame ==
    [][/\ GenStep => instrument_vars' = instrument_vars
       /\ AdvanceStep =>
             <<sr, oscillator, envelope, keyboard_buffer, version>>' =
                <<sr, oscillator, envelope, keyboard_buffer, version>>
       /\ cursor' # cursor => AdvanceStep
       /\ keyboard_buffer' # keyboard_buffer =>
             /\ input_pc \in {"handle", "cleanup"}
             /\ input_pc' = "poll"
             /\ cursor' = cursor]_vars

\* A fill finished with a key held: the cursor moved, the buffer did not.
C25_Witness ==
    /\ audio_pc = "unlock"
    /\ cursor = 2
    /\ Len(data) = 2
    /\ seen[1].cursor = 0 /\ seen[2].cursor = 0
    /\ keyboard_buffer # KeyboardBuffer_new
    /\ seen[1].keyboard_buffer = keyboard_buffer

\* C26: whatever Press, Release and Repeat events of 'r' and of other keys
\* Instrument::handle_key_event receives, and whatever sweeps run in
\* between, the keyboard buffer holds no event for 'r'.
C26_ControlKeyIsNeverANote == "r" \notin DOMAIN keyboard_buffer

\* After a randomize, a Release of 'r' went to a buffer holding a note.
C26_Witness ==
    /\ last_call.op = "handle_key_event"
    /\ LastEvent = [code |-> "r", kind |-> "Release"]
    /\ version[1] = 1
    /\ last_call.before # KeyboardBuffer_new
    /\ keyboard_buffer = last_call.before

\* A thread is waiting in Mutex::lock.
AudioWaits == audio_pc \in {"start", "lock_wait"}
InputWaits == input_pc \in {"lock_event", "lock_cleanup"}

====
